---------------------------- MODULE Spec2Model ----------------------------
(***************************************************************************)
(* Model of the critter-cam-rpi capture programs:                          *)
(*   bird_watch.py      photo capture, static pixel count                  *)
(*   critter-cam-ir.py  photo capture, noise-filtered pixel count          *)
(*   critter-vid-ir.py  video capture, noise-filtered pixel count          *)
(*   birds.py           one-shot comparison of two picture files           *)
(*                                                                         *)
(* An image file is a record [size |-> <<width, height>>, data |-> the     *)
(* row-major sequence of (r,g,b) pixels], as PIL holds it.  A numpy array  *)
(* is a sequence of rows, each a sequence of pixels, each a sequence of    *)
(* channel values.  A call that can raise returns [err, val]: err = "none" *)
(* on success, otherwise the name of the exception.                        *)
(***************************************************************************)
EXTENDS Integers, Sequences, FiniteSets

VARIABLES
    variant,        \* which program runs
    THRESHOLD,      \* global constant THRESHOLD of the running program
    CRITTER_SIZE,   \* global constant BIRD_SIZE / CRITTER_SIZE
    pc,             \* position of main()
    exc,            \* exception that left the try body ("none" while running)
    preview,        \* camera: preview active
    recording,      \* camera: recording in progress
    captures,       \* camera: number of camera.capture calls that succeeded
    TEMPFILE1,      \* content of image1.jpg
    TEMPFILE2,      \* content of image2.jpg
    array1,         \* main(): array1
    array2,         \* main(): array2
    n,              \* main(): n, the image number
    outputs,        \* names written into img_path, in order of writing
    detections,     \* number of comparisons that found an object
    staleId,        \* capture number of the frame held when recording started
    argv,           \* inputs of a function-level run
    result          \* outputs of a function-level run

vars == <<variant, THRESHOLD, CRITTER_SIZE, pc, exc, preview, recording,
          captures, TEMPFILE1, TEMPFILE2, array1, array2, n, outputs,
          detections, staleId, argv, result>>

-----------------------------------------------------------------------------
(* Bounds of the model *)

MaxLevel == 2
MaxThreshold == 3
MaxSize == 1
MaxCaptures == 4

(* Program constants *)

Channels == 3
ZFillWidth == 4

Levels == 0 .. MaxLevel
Pixel == [1 .. Channels -> Levels]

\* Picture sizes <<width, height>> of the function-level runs.
Sizes == {<<1, 1>>, <<2, 1>>, <<1, 2>>}

ImagesOf(size, pixels) ==
    {[size |-> size, data |-> d] : d \in [1 .. (size[1] * size[2]) -> pixels]}

Images == UNION {ImagesOf(s, Pixel) : s \in Sizes}

-----------------------------------------------------------------------------
(* Arithmetic helpers *)

Abs(x) == IF x < 0 THEN -x ELSE x

Max(a, b) == IF a >= b THEN a ELSE b

Min(a, b) == IF a <= b THEN a ELSE b

\* numpy.sign on integers
Sign(x) == IF x > 0 THEN 1 ELSE IF x < 0 THEN -1 ELSE 0

\* numpy integer floor division; division by zero yields 0 (with a
\* RuntimeWarning, which does not stop the program).
FloorDiv(a, b) ==
    IF b = 0 THEN 0
    ELSE IF b > 0 THEN a \div b
    ELSE (-a) \div (-b)

RECURSIVE SumSeq(_)
SumSeq(s) == IF s = <<>> THEN 0 ELSE Head(s) + SumSeq(Tail(s))

RECURSIVE ISqrtFrom(_, _)
ISqrtFrom(x, s) == IF (s + 1) * (s + 1) > x THEN s ELSE ISqrtFrom(x, s + 1)

\* floor of the square root of x >= 0
ISqrt(x) == ISqrtFrom(x, 0)

\* int_(std(values)): the population standard deviation truncated to an
\* integer.  std = sqrt(N*sum(x^2) - sum(x)^2) / N, so its integer part is
\* floor(isqrt(N*sum(x^2) - sum(x)^2) / N).
IntStd(values) ==
    LET N == Len(values)
        s1 == SumSeq(values)
        s2 == SumSeq([i \in 1 .. N |-> values[i] * values[i]])
    IN  ISqrt(N * s2 - s1 * s1) \div N

-----------------------------------------------------------------------------
(* numpy arrays *)

Shape(a) == <<Len(a), Len(a[1]), Len(a[1][1])>>

\* numpy broadcasting of two 3-dimensional shapes
Broadcastable(s1, s2) ==
    \A d \in 1 .. 3 : s1[d] = s2[d] \/ s1[d] = 1 \/ s2[d] = 1

\* index into a dimension of extent e under broadcasting
BIx(i, e) == IF e = 1 THEN 1 ELSE i

\* get_pic of the numpy programs: int_(asarray(Image.open(filename)))
\* gives an array of shape (height, width, 3).
get_pic(img) ==
    LET w == img.size[1]
        h == img.size[2]
    IN  [r \in 1 .. h |-> [c \in 1 .. w |-> img.data[(r - 1) * w + c]]]

\* calculate_diffs: abs(array2 - array1), with numpy's broadcasting
\* (a ValueError when the shapes cannot be broadcast together).
calculate_diffs(a1, a2) ==
    LET s1 == Shape(a1)
        s2 == Shape(a2)
    IN  IF ~Broadcastable(s1, s2)
        THEN [err |-> "ValueError", val |-> <<>>]
        ELSE [err |-> "none",
              val |-> [i \in 1 .. Max(s1[1], s2[1]) |->
                       [j \in 1 .. Max(s1[2], s2[2]) |->
                        [k \in 1 .. Max(s1[3], s2[3]) |->
                           Abs(a2[BIx(i, s2[1])][BIx(j, s2[2])][BIx(k, s2[3])]
                             - a1[BIx(i, s1[1])][BIx(j, s1[2])][BIx(k, s1[3])])]]]]

\* reshape(rgb_diff, (-1, 3)): the list of pixels, row by row
RECURSIVE Flatten(_)
Flatten(a) == IF a = <<>> THEN <<>> ELSE Head(a) \o Flatten(Tail(a))

\* npsum(sign(diffs // THRESHOLD)) over a list of per-pixel sums
CountOver(diffs, threshold) ==
    SumSeq([i \in 1 .. Len(diffs) |-> Sign(FloorDiv(diffs[i], threshold))])


\* per-pixel sum of the channel values of a list of pixels
PixelSums(flat) == [i \in 1 .. Len(flat) |-> SumSeq(flat[i])]

\* column k of a list of pixels
Column(flat, k) == [i \in 1 .. Len(flat) |-> flat[i][k]]

-----------------------------------------------------------------------------
(* bird_watch.py *)

\* count_pixels of bird_watch.py: npsum(rgb_diff, axis=2), then
\* npsum(sign(diffs // THRESHOLD)).
count_pixels_bird_watch(rgb_diff, threshold) ==
    CountOver(PixelSums(Flatten(rgb_diff)), threshold)

-----------------------------------------------------------------------------
(* critter-vid-ir.py *)

\* std_devs = int_(std(flat_diffs, axis=0)): one value per channel
StdDevs(flat) == [k \in 1 .. Channels |-> IntStd(Column(flat, k))]

\* NoiseSubtract with abs() in the place of .clip(min=0)
NoiseSubtract_abs(flat, std_devs) ==
    [i \in 1 .. Len(flat) |->
        [k \in 1 .. Channels |-> Abs(flat[i][k] - std_devs[k])]]

\* (flat_diffs - std_devs).clip(min=0)
NoiseSubtract(flat, std_devs) ==
    [i \in 1 .. Len(flat) |->
        [k \in 1 .. Channels |-> Max(flat[i][k] - std_devs[k], 0)]]

\* count_pixels of critter-vid-ir.py
count_pixels_vid_ir(rgb_diff, threshold) ==
    LET flat_diffs == Flatten(rgb_diff)
        std_devs == StdDevs(flat_diffs)
    IN  CountOver(PixelSums(NoiseSubtract(flat_diffs, std_devs)), threshold)

-----------------------------------------------------------------------------
(* critter-cam-ir.py *)

\* count_pixels of critter-cam-ir.py.  std(rgb_diff, axis=0) is taken over
\* the rows of the 3-dimensional array and has shape (columns, 3); it is
\* broadcast against the (rows*columns, 3) pixel list (a ValueError when the
\* two extents differ and neither is 1); npsum(flat_diffs, axis=2) is then
\* applied to a 2-dimensional array, which raises numpy's AxisError.
count_pixels_cam_ir(rgb_diff, threshold) ==
    LET flat_diffs == Flatten(rgb_diff)
        rows == Len(rgb_diff)
        cols == Len(rgb_diff[1])
        N == Len(flat_diffs)
    IN  IF ~(N = cols \/ N = 1 \/ cols = 1)
        THEN [err |-> "ValueError", val |-> 0]
        ELSE [err |-> "AxisError", val |-> 0]

\* std_devs = int_(std(rgb_diff, axis=0)) of critter-cam-ir.py: the
\* deviation over the rows, one value per column and channel.
std_devs_cam_ir(rgb_diff) ==
    [c \in 1 .. Len(rgb_diff[1]) |->
        [k \in 1 .. Channels |->
            IntStd([r \in 1 .. Len(rgb_diff) |-> rgb_diff[r][c][k]])]]

-----------------------------------------------------------------------------
(* birds.py *)

\* get_pic of birds.py: list(pic.getdata())
get_pic_birds(img) == img.data

\* subtract_pics: zip stops at the shorter of its arguments, both over the
\* pixels and over the channels of a pixel; neither zip nor abs raises.
subtract_pics(pic1, pic2) ==
    [err |-> "none",
     val |-> [i \in 1 .. Min(Len(pic1), Len(pic2)) |->
                [k \in 1 .. Min(Len(pic1[i]), Len(pic2[i])) |->
                    Abs(pic1[i][k] - pic2[i][k])]]]

\* count_pixels of birds.py: the pixels with a positive channel sum
count_pixels_birds(rgb) ==
    Cardinality({i \in 1 .. Len(rgb) : SumSeq(rgb[i]) > 0})

\* new = [(img2[i] if sum(pixel)>THRESHOLD else (0,0,0)) ...]
NewPic(img2, diff, threshold) ==
    [i \in 1 .. Len(diff) |->
        IF SumSeq(diff[i]) > threshold THEN img2[i]
        ELSE [k \in 1 .. Channels |-> 0]]

\* the module-level code of birds.py up to diffs = count_pixels(new)
birds_diffs(file1, file2, threshold) ==
    LET img1 == get_pic_birds(file1)
        img2 == get_pic_birds(file2)
        diff == subtract_pics(img2, img1)
    IN  count_pixels_birds(NewPic(img2, diff.val, threshold))

\* has_object / "if diffs > BIRD_SIZE"
has_object(count, size) == count > size

-----------------------------------------------------------------------------
(* Function-level runs: the inputs are drawn in FnInit, FnRun applies the  *)
(* functions of the programs to them.                                      *)

\* First pictures: an evenly lit scene of any size.
Backgrounds ==
    UNION {ImagesOf(s, {[k \in 1 .. Channels |-> v]}) :
              s \in Sizes, v \in {0, MaxLevel}}

NoImage == [size |-> <<0, 0>>, data |-> <<>>]

NoFrame == [id |-> 0, img |-> NoImage]

NoResult ==
    [done |-> FALSE, diff |-> [err |-> "none", val |-> <<>>],
     static |-> 0, adaptive |-> 0,
     birds_diff |-> [err |-> "none", val |-> <<>>], birds |-> 0,
     cam_ir |-> [err |-> "none", val |-> 0], cam_ir_std |-> <<>>]

FnInit ==
    /\ argv \in [pic1 : Backgrounds, pic2 : Images,
                 threshold : 0 .. MaxThreshold]
    /\ result = NoResult
    /\ variant = "functions"
    /\ THRESHOLD = 0
    /\ CRITTER_SIZE = 0
    /\ pc = "functions"
    /\ exc = "none"
    /\ preview = FALSE
    /\ recording = FALSE
    /\ captures = 0
    /\ TEMPFILE1 = NoFrame
    /\ TEMPFILE2 = NoFrame
    /\ array1 = NoFrame
    /\ array2 = NoFrame
    /\ n = 1
    /\ outputs = <<>>
    /\ detections = 0
    /\ staleId = 0

FnRun ==
    /\ ~result.done
    /\ LET a1 == get_pic(argv.pic1)
           a2 == get_pic(argv.pic2)
           d == calculate_diffs(a1, a2)
       IN  result' =
             [done |-> TRUE,
              diff |-> d,
              static |-> IF d.err = "none"
                         THEN count_pixels_bird_watch(d.val, argv.threshold)
                         ELSE 0,
              adaptive |-> IF d.err = "none"
                           THEN count_pixels_vid_ir(d.val, argv.threshold)
                           ELSE 0,
              birds_diff |-> subtract_pics(get_pic_birds(argv.pic2),
                                           get_pic_birds(argv.pic1)),
              birds |-> birds_diffs(argv.pic1, argv.pic2, argv.threshold),
              cam_ir |-> IF d.err = "none"
                         THEN count_pixels_cam_ir(d.val, argv.threshold)
                         ELSE [err |-> d.err, val |-> 0],
              cam_ir_std |-> IF d.err = "none"
                             THEN std_devs_cam_ir(d.val)
                             ELSE <<>>]
    /\ UNCHANGED <<variant, THRESHOLD, CRITTER_SIZE, pc, exc, preview,
                   recording, captures, TEMPFILE1, TEMPFILE2, array1, array2,
                   n, outputs, detections, staleId, argv>>

FnNext == FnRun

FnSpec == FnInit /\ [][FnNext]_vars

-----------------------------------------------------------------------------
(* The capture programs: main() of bird_watch.py, critter-cam-ir.py and    *)
(* critter-vid-ir.py, and the module-level code of birds.py.               *)

PhotoPrograms == {"bird_watch", "critter_cam_ir"}

CapturePrograms == PhotoPrograms \cup {"critter_vid_ir"}

Programs == CapturePrograms \cup {"birds"}

\* What the camera can see: a picture of the camera's fixed resolution whose
\* pixels are dark or bright.
CameraSize == <<2, 1>>

Scenes ==
    ImagesOf(CameraSize,
             {[k \in 1 .. Channels |-> 0], [k \in 1 .. Channels |-> MaxLevel]})

NoArray == [id |-> 0, img |-> <<>>]

NoArgv == [pic1 |-> NoImage, pic2 |-> NoImage, threshold |-> 0]

\* str(n)
RECURSIVE Str(_)
Str(m) == IF m < 10 THEN <<m>> ELSE Str(m \div 10) \o <<m % 10>>

\* s.zfill(width)
zfill(s, width) ==
    IF Len(s) >= width THEN s
    ELSE [i \in 1 .. (width - Len(s)) |-> 0] \o s

\* img_path + 'critter{}.jpg'.format(str(n).zfill(4)), '.h264' for a video
OutputName(m, ext) == [stem |-> zfill(Str(m), ZFillWidth), ext |-> ext]

\* count_pixels of the running program
count_pixels(prog, rgb_diff, threshold) ==
    CASE prog = "bird_watch" ->
           [err |-> "none", val |-> count_pixels_bird_watch(rgb_diff, threshold)]
      [] prog = "critter_vid_ir" ->
           [err |-> "none", val |-> count_pixels_vid_ir(rgb_diff, threshold)]
      [] OTHER -> count_pixels_cam_ir(rgb_diff, threshold)

\* object_found with >= in the place of >
object_found_ge(count, size) == count >= size

\* "if count_pixels(diff) > BIRD_SIZE" / "> CRITTER_SIZE"
object_found(count, size) == count > size

\* The positions of main() inside the try body.
TryBody ==
    {"start_preview", "settle", "capture1", "get_pic1", "capture2",
     "get_pic2", "compare", "filecopy", "start_recording", "wait_recording",
     "stop_recording", "incr", "reget", "rename", "assign", "sleep"}

Init ==
    /\ variant \in Programs
    /\ THRESHOLD \in 0 .. MaxThreshold
    /\ CRITTER_SIZE \in 0 .. MaxSize
    /\ pc = IF variant = "birds" THEN "birds_main" ELSE "start_preview"
    /\ exc = "none"
    /\ preview = FALSE
    /\ recording = FALSE
    /\ captures = 0
    /\ TEMPFILE1 = NoFrame
    /\ TEMPFILE2 = NoFrame
    /\ array1 = NoArray
    /\ array2 = NoArray
    /\ n = 1
    /\ outputs = <<>>
    /\ detections = 0
    /\ staleId = 0
    /\ IF variant = "birds"
       THEN argv \in [pic1 : Scenes \cup Backgrounds,
                      pic2 : Scenes \cup Backgrounds,
                      threshold : {THRESHOLD}]
       ELSE argv = NoArgv
    /\ result = NoResult

\* camera.start_preview(); camera.preview.alpha = 0
StartPreview ==
    /\ pc = "start_preview"
    /\ preview' = TRUE
    /\ pc' = "settle"
    /\ UNCHANGED <<variant, THRESHOLD, CRITTER_SIZE, exc, recording, captures,
                   TEMPFILE1, TEMPFILE2, array1, array2, n, outputs,
                   detections, staleId, argv, result>>

\* sleep(2)
Settle ==
    /\ pc = "settle"
    /\ pc' = "capture1"
    /\ UNCHANGED <<variant, THRESHOLD, CRITTER_SIZE, exc, preview, recording,
                   captures, TEMPFILE1, TEMPFILE2, array1, array2, n, outputs,
                   detections, staleId, argv, result>>

\* camera.capture(TEMPFILE1)
Capture1 ==
    /\ pc = "capture1"
    /\ captures < MaxCaptures
    /\ \E s \in Scenes :
          TEMPFILE1' = [id |-> captures + 1, img |-> s]
    /\ captures' = captures + 1
    /\ pc' = "get_pic1"
    /\ UNCHANGED <<variant, THRESHOLD, CRITTER_SIZE, exc, preview, recording,
                   TEMPFILE2, array1, array2, n, outputs, detections, staleId,
                   argv, result>>

\* array1 = get_pic(TEMPFILE1)
GetPic1 ==
    /\ pc = "get_pic1"
    /\ array1' = [id |-> TEMPFILE1.id, img |-> get_pic(TEMPFILE1.img)]
    /\ pc' = "capture2"
    /\ UNCHANGED <<variant, THRESHOLD, CRITTER_SIZE, exc, preview, recording,
                   captures, TEMPFILE1, TEMPFILE2, array2, n, outputs,
                   detections, staleId, argv, result>>

\* camera.capture(TEMPFILE2)
Capture2 ==
    /\ pc = "capture2"
    /\ captures < MaxCaptures
    /\ \E s \in Scenes :
          TEMPFILE2' = [id |-> captures + 1, img |-> s]
    /\ captures' = captures + 1
    /\ pc' = "get_pic2"
    /\ UNCHANGED <<variant, THRESHOLD, CRITTER_SIZE, exc, preview, recording,
                   TEMPFILE1, array1, array2, n, outputs, detections, staleId,
                   argv, result>>

\* camera.capture raises: the frame could not be acquired
CaptureFails ==
    /\ pc \in {"capture1", "capture2"}
    /\ exc' = "PiCameraError"
    /\ pc' = "finally"
    /\ UNCHANGED <<variant, THRESHOLD, CRITTER_SIZE, preview, recording,
                   captures, TEMPFILE1, TEMPFILE2, array1, array2, n, outputs,
                   detections, staleId, argv, result>>

\* array2 = get_pic(TEMPFILE2)
GetPic2 ==
    /\ pc = "get_pic2"
    /\ array2' = [id |-> TEMPFILE2.id, img |-> get_pic(TEMPFILE2.img)]
    /\ pc' = "compare"
    /\ UNCHANGED <<variant, THRESHOLD, CRITTER_SIZE, exc, preview, recording,
                   captures, TEMPFILE1, TEMPFILE2, array1, n, outputs,
                   detections, staleId, argv, result>>

\* diff = calculate_diffs(array1, array2)
\* if count_pixels(diff) > CRITTER_SIZE: ...
Compare ==
    /\ pc = "compare"
    /\ LET diff == calculate_diffs(array1.img, array2.img)
           count == IF diff.err = "none"
                    THEN count_pixels(variant, diff.val, THRESHOLD)
                    ELSE [err |-> diff.err, val |-> 0]
       IN  IF count.err # "none"
           THEN /\ exc' = count.err
                /\ pc' = "finally"
                /\ UNCHANGED detections
           ELSE IF object_found(count.val, CRITTER_SIZE)
           THEN /\ pc' = IF variant = "critter_vid_ir"
                         THEN "start_recording" ELSE "filecopy"
                /\ detections' = detections + 1
                /\ UNCHANGED exc
           ELSE /\ pc' = "rename"
                /\ UNCHANGED <<exc, detections>>
    /\ UNCHANGED <<variant, THRESHOLD, CRITTER_SIZE, preview, recording,
                   captures, TEMPFILE1, TEMPFILE2, array1, array2, n, outputs,
                   staleId, argv, result>>

\* filecopy(TEMPFILE2, img_path + 'critter{}.jpg'.format(...))
FileCopy ==
    /\ pc = "filecopy"
    /\ outputs' = Append(outputs, OutputName(n, "jpg"))
    /\ pc' = "incr"
    /\ UNCHANGED <<variant, THRESHOLD, CRITTER_SIZE, exc, preview, recording,
                   captures, TEMPFILE1, TEMPFILE2, array1, array2, n,
                   detections, staleId, argv, result>>

\* filecopy raises (the disk is full, the directory is gone): nothing in
\* main() catches an OSError, so it leaves the try body.
FileCopyFails ==
    /\ pc = "filecopy"
    /\ exc' = "OSError"
    /\ pc' = "finally"
    /\ UNCHANGED <<variant, THRESHOLD, CRITTER_SIZE, preview, recording,
                   captures, TEMPFILE1, TEMPFILE2, array1, array2, n, outputs,
                   detections, staleId, argv, result>>

\* camera.start_recording(img_path + 'critter{}.h264'.format(...))
StartRecording ==
    /\ pc = "start_recording"
    /\ recording' = TRUE
    /\ outputs' = Append(outputs, OutputName(n, "h264"))
    /\ staleId' = array2.id
    /\ pc' = "wait_recording"
    /\ UNCHANGED <<variant, THRESHOLD, CRITTER_SIZE, exc, preview, captures,
                   TEMPFILE1, TEMPFILE2, array1, array2, n, detections, argv,
                   result>>

\* camera.wait_recording(VIDEO_TIME)
WaitRecording ==
    /\ pc = "wait_recording"
    /\ pc' = "stop_recording"
    /\ UNCHANGED <<variant, THRESHOLD, CRITTER_SIZE, exc, preview, recording,
                   captures, TEMPFILE1, TEMPFILE2, array1, array2, n, outputs,
                   detections, staleId, argv, result>>

\* camera.wait_recording raises the error the recording ran into
WaitRecordingFails ==
    /\ pc = "wait_recording"
    /\ exc' = "PiCameraError"
    /\ pc' = "finally"
    /\ UNCHANGED <<variant, THRESHOLD, CRITTER_SIZE, preview, recording,
                   captures, TEMPFILE1, TEMPFILE2, array1, array2, n, outputs,
                   detections, staleId, argv, result>>

\* camera.stop_recording()
StopRecording ==
    /\ pc = "stop_recording"
    /\ recording' = FALSE
    /\ pc' = "incr"
    /\ UNCHANGED <<variant, THRESHOLD, CRITTER_SIZE, exc, preview, captures,
                   TEMPFILE1, TEMPFILE2, array1, array2, n, outputs,
                   detections, staleId, argv, result>>

\* Incr with the increment lost
Incr_lost ==
    /\ pc = "incr"
    /\ n' = n
    /\ pc' = IF variant = "critter_vid_ir" THEN "reget" ELSE "rename"
    /\ UNCHANGED <<variant, THRESHOLD, CRITTER_SIZE, exc, preview, recording,
                   captures, TEMPFILE1, TEMPFILE2, array1, array2, outputs,
                   detections, staleId, argv, result>>

\* n += 1
Incr ==
    /\ pc = "incr"
    /\ n' = n + 1
    /\ pc' = IF variant = "critter_vid_ir" THEN "reget" ELSE "rename"
    /\ UNCHANGED <<variant, THRESHOLD, CRITTER_SIZE, exc, preview, recording,
                   captures, TEMPFILE1, TEMPFILE2, array1, array2, outputs,
                   detections, staleId, argv, result>>

\* array2 = get_pic(TEMPFILE2), after the recording: the file is the one
\* written by the capture that preceded the recording.
ReGet ==
    /\ pc = "reget"
    /\ array2' = [id |-> TEMPFILE2.id, img |-> get_pic(TEMPFILE2.img)]
    /\ pc' = "rename"
    /\ UNCHANGED <<variant, THRESHOLD, CRITTER_SIZE, exc, preview, recording,
                   captures, TEMPFILE1, TEMPFILE2, array1, n, outputs,
                   detections, staleId, argv, result>>

\* rename(TEMPFILE2, TEMPFILE1)
Rename ==
    /\ pc = "rename"
    /\ TEMPFILE1' = TEMPFILE2
    /\ TEMPFILE2' = NoFrame
    /\ pc' = "assign"
    /\ UNCHANGED <<variant, THRESHOLD, CRITTER_SIZE, exc, preview, recording,
                   captures, array1, array2, n, outputs, detections, staleId,
                   argv, result>>

\* Assign with the assignment lost: array1 keeps the older frame
Assign_lost ==
    /\ pc = "assign"
    /\ array1' = array1
    /\ pc' = "sleep"
    /\ UNCHANGED <<variant, THRESHOLD, CRITTER_SIZE, exc, preview, recording,
                   captures, TEMPFILE1, TEMPFILE2, array2, n, outputs,
                   detections, staleId, argv, result>>

\* array1 = array2
Assign ==
    /\ pc = "assign"
    /\ array1' = array2
    /\ pc' = "sleep"
    /\ UNCHANGED <<variant, THRESHOLD, CRITTER_SIZE, exc, preview, recording,
                   captures, TEMPFILE1, TEMPFILE2, array2, n, outputs,
                   detections, staleId, argv, result>>

\* sleep(DELAY), then the next iteration of "while True"
Sleep ==
    /\ pc = "sleep"
    /\ pc' = "capture2"
    /\ UNCHANGED <<variant, THRESHOLD, CRITTER_SIZE, exc, preview, recording,
                   captures, TEMPFILE1, TEMPFILE2, array1, array2, n, outputs,
                   detections, staleId, argv, result>>

\* CTRL + C at any statement of the try body
KeyboardInterrupt ==
    /\ pc \in TryBody
    /\ exc' = "KeyboardInterrupt"
    /\ pc' = "except"
    /\ UNCHANGED <<variant, THRESHOLD, CRITTER_SIZE, preview, recording,
                   captures, TEMPFILE1, TEMPFILE2, array1, array2, n, outputs,
                   detections, staleId, argv, result>>

\* except KeyboardInterrupt: print('Canceled.')
Except ==
    /\ pc = "except"
    /\ pc' = "finally"
    /\ UNCHANGED <<variant, THRESHOLD, CRITTER_SIZE, exc, preview, recording,
                   captures, TEMPFILE1, TEMPFILE2, array1, array2, n, outputs,
                   detections, staleId, argv, result>>

\* Finally with stop_preview() reached only after a KeyboardInterrupt, as if
\* it stood in the except block
Finally_in_except ==
    /\ pc = "finally"
    /\ preview' = IF exc = "KeyboardInterrupt" THEN FALSE ELSE preview
    /\ pc' = "exited"
    /\ UNCHANGED <<variant, THRESHOLD, CRITTER_SIZE, exc, recording, captures,
                   TEMPFILE1, TEMPFILE2, array1, array2, n, outputs,
                   detections, staleId, argv, result>>

\* finally: camera.stop_preview(); main() returns or re-raises exc
Finally ==
    /\ pc = "finally"
    /\ preview' = FALSE
    /\ pc' = "exited"
    /\ UNCHANGED <<variant, THRESHOLD, CRITTER_SIZE, exc, recording, captures,
                   TEMPFILE1, TEMPFILE2, array1, array2, n, outputs,
                   detections, staleId, argv, result>>

\* birds.py: img1 = get_pic(argv[1]) ... diffs = count_pixels(new)
BirdsMain ==
    /\ pc = "birds_main"
    /\ result' = [NoResult EXCEPT
                    !.done = TRUE,
                    !.birds_diff = subtract_pics(get_pic_birds(argv.pic2),
                                                 get_pic_birds(argv.pic1)),
                    !.birds = birds_diffs(argv.pic1, argv.pic2, argv.threshold)]
    /\ pc' = "birds_report"
    /\ UNCHANGED <<variant, THRESHOLD, CRITTER_SIZE, exc, preview, recording,
                   captures, TEMPFILE1, TEMPFILE2, array1, array2, n, outputs,
                   detections, staleId, argv>>

\* birds.py: if diffs > BIRD_SIZE: print('There seems to be an object ...')
BirdsReport ==
    /\ pc = "birds_report"
    /\ detections' = IF has_object(result.birds, CRITTER_SIZE) THEN 1 ELSE 0
    /\ pc' = "exited"
    /\ UNCHANGED <<variant, THRESHOLD, CRITTER_SIZE, exc, preview, recording,
                   captures, TEMPFILE1, TEMPFILE2, array1, array2, n, outputs,
                   staleId, argv, result>>

Next ==
    \/ StartPreview
    \/ Settle
    \/ Capture1
    \/ GetPic1
    \/ Capture2
    \/ CaptureFails
    \/ GetPic2
    \/ Compare
    \/ FileCopy
    \/ FileCopyFails
    \/ StartRecording
    \/ WaitRecording
    \/ WaitRecordingFails
    \/ StopRecording
    \/ Incr
    \/ ReGet
    \/ Rename
    \/ Assign
    \/ Sleep
    \/ KeyboardInterrupt
    \/ Except
    \/ Finally
    \/ BirdsMain
    \/ BirdsReport

Spec == Init /\ [][Next]_vars

-----------------------------------------------------------------------------
(* Properties *)

\* the number a sequence of decimal digits denotes
RECURSIVE DigitsValue(_)
DigitsValue(s) ==
    IF s = <<>> THEN 0
    ELSE 10 * DigitsValue(SubSeq(s, 1, Len(s) - 1)) + s[Len(s)]

\* the changed-pixel count of the comparison main() is about to decide on
CurrentCount ==
    count_pixels(variant, calculate_diffs(array1.img, array2.img).val,
                 THRESHOLD).val

\* positions of the loop that lie outside an output action
OutsideEpisode ==
    {"capture2", "get_pic2", "compare", "reget", "rename", "assign", "sleep"}

\* C1: once the try block is entered, every way of leaving main() - a
\* KeyboardInterrupt at any statement, a failing camera.capture, any other
\* exception - passes through camera.stop_preview(): no run of a capture
\* program ends with the preview still active.
C1_PreviewStoppedOnExit ==
    (variant \in CapturePrograms /\ pc = "exited") => ~preview

\* a failing capture of a later frame ended the run, the preview was stopped
C1_Witness ==
    /\ variant \in CapturePrograms
    /\ pc = "exited"
    /\ exc = "PiCameraError"
    /\ captures >= 2
    /\ ~preview

\* C2: in the video program no recording is left in progress when main()
\* ends: every start_recording has been followed by stop_recording.
C2_NoRecordingAtExit ==
    (variant = "critter_vid_ir" /\ pc = "exited") => ~recording

\* C3: in the photo programs a failing filecopy is not fatal: after it the
\* program is still in its loop, it has not left the try body.
C3_WriteFailureNotFatal ==
    (variant \in PhotoPrograms /\ exc = "OSError")
        => pc \notin {"finally", "exited"}

\* C4: in the video program, the frame compared as `previous` after a
\* recording was captured after the recording; it is never the frame that
\* was held when the recording started.
C4_FreshFrameAfterRecording ==
    (variant = "critter_vid_ir" /\ pc = "compare" /\ staleId # 0)
        => array1.id # staleId

\* C5: n starts at 1 and is incremented once per detection episode and never
\* otherwise: the k-th output of a run carries the number k, zero-padded to
\* four digits, a cycle with a detection produces one output and a cycle
\* without one none, and no name is written twice.
C5_SequenceCounter ==
    variant \in CapturePrograms =>
        /\ n >= 1
        /\ Len(outputs) \in {n - 1, n}
        /\ pc \in {"start_preview", "settle", "capture1", "get_pic1"}
              => (n = 1 /\ outputs = <<>>)
        /\ pc \in OutsideEpisode
              => (n = detections + 1 /\ Len(outputs) = detections)
        /\ \A k \in 1 .. Len(outputs) :
              /\ Len(outputs[k].stem) = ZFillWidth
              /\ DigitsValue(outputs[k].stem) = k
        /\ \A j, k \in 1 .. Len(outputs) :
              j # k => outputs[j] # outputs[k]

\* two episodes of one run are complete
C5_Witness ==
    /\ variant \in CapturePrograms
    /\ pc = "rename"
    /\ n = 3
    /\ Len(outputs) = 2
    /\ detections = 2

\* C6: the decision is "count > object size", strictly: from the comparison
\* the program goes on to its output action exactly when the changed-pixel
\* count exceeds CRITTER_SIZE / BIRD_SIZE, and birds.py reports an object
\* exactly when its count exceeds BIRD_SIZE.
C6_StrictDecision ==
    [][ /\ (pc = "compare" /\ pc' \in {"filecopy", "start_recording", "rename"})
            => ((pc' # "rename") <=> (CurrentCount > CRITTER_SIZE))
        /\ (pc = "birds_report" /\ pc' = "exited")
            => ((detections' = 1) <=> (result.birds > CRITTER_SIZE)) ]_vars

\* a comparison whose count equals the (positive) object size went on
\* without an output action
C6_Witness ==
    /\ variant \in {"bird_watch", "critter_vid_ir"}
    /\ pc = "rename"
    /\ detections = 0
    /\ CRITTER_SIZE >= 1
    /\ CurrentCount = CRITTER_SIZE

\* the pixels of a DiffMap, and those of them whose noise has been removed
DiffPixels == Flatten(result.diff.val)

AdjustedPixels == NoiseSubtract(DiffPixels, StdDevs(DiffPixels))

\* how many entries of a sequence of sums satisfy: sum >= threshold
CountAtLeast(sums, threshold) ==
    Cardinality({i \in 1 .. Len(sums) : sums[i] >= threshold})

\* how many entries of a sequence of sums are not zero
CountNonZero(sums) ==
    Cardinality({i \in 1 .. Len(sums) : sums[i] # 0})

\* every channel of the DiffMap holds one value at all pixels
ConstantPerChannel(flat) ==
    \A k \in 1 .. Channels : \A i, j \in 1 .. Len(flat) : flat[i][k] = flat[j][k]

\* C7: the difference of two frames of differing shapes always fails with an
\* error, for calculate_diffs on arrays and for subtract_pics on pixel
\* lists: no DiffMap comes back.
C7_ShapeMismatchFails ==
    (result.done /\ argv.pic1.size # argv.pic2.size)
        => (result.diff.err # "none" /\ result.birds_diff.err # "none")

\* C8: in static mode, for a threshold >= 1, the count is the number of
\* pixels whose summed channel difference is >= threshold, in bird_watch.py
\* and in birds.py alike.
C8_StaticRule ==
    (/\ result.done
     /\ argv.threshold >= 1
     /\ argv.pic1.size = argv.pic2.size)
        => /\ result.static
                = CountAtLeast(PixelSums(DiffPixels), argv.threshold)
           /\ result.birds
                = CountAtLeast(PixelSums(DiffPixels), argv.threshold)

\* C9: with threshold 0 the count is the number of pixels whose summed
\* channel difference is not zero, in the static count of bird_watch.py and
\* in the noise-adjusted count of critter-vid-ir.py.
C9_ZeroThreshold ==
    (/\ result.done
     /\ argv.threshold = 0
     /\ result.diff.err = "none")
        => /\ result.static = CountNonZero(PixelSums(DiffPixels))
           /\ result.adaptive = CountNonZero(PixelSums(AdjustedPixels))

\* C10: for two frames of one shape and any threshold, the noise-adjusted
\* count of critter-vid-ir.py is at most the static count of bird_watch.py,
\* and the two are equal when every channel of the DiffMap is constant.
C10_AdaptiveAtMostStatic ==
    (/\ result.done
     /\ argv.pic1.size = argv.pic2.size)
        => /\ result.adaptive <= result.static
           /\ ConstantPerChannel(DiffPixels)
                => result.adaptive = result.static

\* the noise estimate of some channel is positive and removes a pixel that
\* the static count keeps
C10_Witness ==
    /\ result.done
    /\ argv.pic1.size = argv.pic2.size
    /\ \E k \in 1 .. Channels : StdDevs(DiffPixels)[k] >= 1
    /\ result.adaptive < result.static
    /\ result.adaptive >= 1

\* C11: count_pixels of critter-cam-ir.py, like that of critter-vid-ir.py,
\* takes a rows x columns x 3 DiffMap, uses three noise values (one per
\* channel, over all pixels), returns a count, and the two programs return
\* the same count for the same DiffMap and threshold.
C11_AdaptiveVariantsAgree ==
    (result.done /\ result.diff.err = "none")
        => /\ result.cam_ir.err = "none"
           /\ result.cam_ir_std = StdDevs(DiffPixels)
           /\ result.cam_ir.val = result.adaptive

\* C12: at the start of every iteration array1 is the frame of the last
\* capture and image1.jpg holds that frame; every comparison is between the
\* last two captures, so a frame is `current` once, `previous` at most once,
\* and no older frame is ever compared.
C12_ConsecutiveFrames ==
    variant \in CapturePrograms =>
        /\ pc = "capture2"
              => /\ array1.id = captures
                 /\ TEMPFILE1.id = captures
                 /\ get_pic(TEMPFILE1.img) = array1.img
        /\ pc = "get_pic2"
              => (TEMPFILE2.id = captures /\ array1.id = captures - 1)
        /\ pc = "compare"
              => (array2.id = captures /\ array1.id = captures - 1)

\* the third iteration starts after a cycle that made a detection
C12_Witness ==
    /\ variant \in CapturePrograms
    /\ pc = "capture2"
    /\ captures = 3
    /\ detections >= 1
    /\ array1.id = 3
    /\ TEMPFILE1.id = 3

=============================================================================
